---- MODULE Spec2Model ----
(***************************************************************************)
(* A model of sift_pyocl's SiftPlan (src/sift-src/plan.py): construction,  *)
(* the keypoints() driver that enqueues the pyramid kernels, and teardown, *)
(* and of the extremum detector's and the sub-pixel refiner's references   *)
(* (src/test/test_image.py).                                               *)
(***************************************************************************)
EXTENDS Integers, Sequences, FiniteSets, TLC

\* ------------------------------------------------------------------ bounds
\* Largest image side, largest par.Scales, largest par.BorderDist.
MaxDim == 8
MaxScales == 2
MaxBorder == 1
\* device.max_work_item_sizes[1] of the modelled device.
MaxWorkItemSize == 4
\* Largest number of registry entries whose release fails in one teardown.
MaxFail == 2
\* The detector: side of the scanned square, capacity of the record array,
\* magnitude of a DoG peak.
ScanSide == 2
MaxKeypoints == 2
PeakVal == 2

Dims == 1 .. MaxDim
\* Channel counts of the 3-D shapes handed to the constructor.
Chans == {3, 4}
Dtypes == {"float32", "uint8", "uint16", "int32", "int64", "float64"}
SupportedDtypes == {"float32", "uint8", "uint16", "int32", "int64"}

\* Shapes handed to the constructor: 1-D, 2-D, 3-D and 4-D tuples.
Shapes ==
    {<<h>> : h \in Dims}
    \cup {<<h, w>> : h \in Dims, w \in Dims}
    \cup {<<h, w, c>> : h \in Dims, w \in Dims, c \in Chans}
    \cup {<<h, h, 3, 1>> : h \in Dims}

VARIABLES
    par,        \* the parameter set: [Scales, BorderDist, InitBlur]
    argShape,   \* shape (or template.shape) given to __init__
    argDtype,   \* dtype (or template.dtype) given to __init__
    pc,         \* "new", "ready" (constructed), "failed" (__init__ raised), "freed",
                \* "detector", "refiner", "refine_raised"
    shape,      \* self.shape
    dtype,      \* self.dtype
    RGB,        \* self.RGB
    scales,     \* self.scales
    procsize,   \* self.procsize
    wgsize,     \* self.wgsize
    buffers,    \* self.buffers: key -> [val, shape, dtype]
    call,       \* the last keypoints() call: [image, ops, err, result]
    teardown,   \* the run of __del__: [visits, failing, logged, err]
    dog,        \* the detector's input: the three DoG levels
    counter,    \* the detector's shared counter (device memory)
    output,     \* the detector's record array: slot -> record
    wi,         \* the detector's work-items: pixel -> [at, slot]
    ref         \* the refinement loop: [i, rows, fits, err]

planVars == <<par, argShape, argDtype, pc, shape, dtype, RGB, scales, procsize,
              wgsize, buffers, call, teardown>>

detectVars == <<dog, counter, output, wi, ref>>

vars == <<planVars, detectVars>>

\* ----------------------------------------------------------------- helpers
Min2(a, b) == IF a < b THEN a ELSE b

MinOf(s) == Min2(s[1], s[2])

Reversed(s) == [k \in 1 .. Len(s) |-> s[Len(s) + 1 - k]]

Halved(s) == <<s[1] \div 2, s[2] \div 2>>

RECURSIVE Pow2(_)
Pow2(n) == IF n = 0 THEN 1 ELSE 2 * Pow2(n - 1)

\* int(math.log(n) / math.log(2)) for n >= 1
RECURSIVE FloorLog2(_)
FloorLog2(n) == IF n < 2 THEN 0 ELSE 1 + FloorLog2(n \div 2)

\* A registry key.  Python's keys "input", "raw", "gaussian_<sigma>",
\* (octave, "tmp"), (octave, i, "G"), (octave, i, "DoG") as uniform triples.
Key(kind, o, i) == <<kind, o, i>>

NoCall == [image |-> <<>>, imgDtype |-> "", ops |-> <<>>, err |-> "none", result |-> "none"]

EmptyMap == [k \in {} |-> 0]

\* ----------------------------------------------------------- construction
\* min_size = 2 * par.BorderDist + 2
min_size(p) == 2 * p.BorderDist + 2

\* The while loop of _calc_scales: halve and append while min(shape) > min_size.
RECURSIVE ScalesLoop(_, _, _)
ScalesLoop(shp, ms, acc) ==
    IF MinOf(shp) > ms
    THEN ScalesLoop(Halved(shp), ms, Append(acc, Halved(shp)))
    ELSE acc

\* self.scales.pop()
Pop(s) == SubSeq(s, 1, Len(s) - 1)

\* A variant of calc_scales that forgets the final pop.
calc_scales_no_pop(shp, p) == ScalesLoop(shp, min_size(p), <<Reversed(shp)>>)

\* _calc_scales: the first entry is the reversed shape, the loop appends the
\* halved shapes as they are, the last entry is popped.
calc_scales(shp, p) == Pop(ScalesLoop(shp, min_size(p), <<Reversed(shp)>>))

\* utils.calc_size: every dimension rounded up to a multiple of the workgroup.
calc_size(shp, wg) ==
    [k \in 1 .. 2 |-> ((shp[k] + wg[k] - 1) \div wg[k]) * wg[k]]

\* wg = (1, min(2 ** int(log(shape[1]) / log(2)), max_work_item_sizes[1]))
workgroup(shp) == <<1, Min2(Pow2(FloorLog2(shp[2])), MaxWorkItemSize)>>

\* The while loop of _calc_workgroups; returns <<wgsize, procsize>>.
RECURSIVE WorkgroupsLoop(_, _, _, _)
WorkgroupsLoop(shp, ms, wgs, procs) ==
    IF MinOf(shp) > ms
    THEN WorkgroupsLoop(Halved(shp), ms, Append(wgs, workgroup(shp)),
                        Append(procs, calc_size(shp, workgroup(shp))))
    ELSE <<wgs, procs>>

calc_workgroups(shp, p) == WorkgroupsLoop(shp, min_size(p), <<>>, <<>>)

Array(shp, dt) == [val |-> "array", shape |-> shp, dtype |-> dt]

\* The per-octave part of _allocate_buffers; octave o gets the current shape,
\* which is then halved.
RECURSIVE AllocOctaves(_, _, _, _, _)
AllocOctaves(bufs, o, nOct, shp, p) ==
    IF o >= nOct THEN bufs
    ELSE LET keys == {Key("tmp", o, 0)}
                     \cup {Key("G", o, i) : i \in 0 .. p.Scales + 2}
                     \cup {Key("DoG", o, i) : i \in 0 .. p.Scales + 1}
             new == [k \in DOMAIN bufs \cup keys |->
                        IF k \in keys THEN Array(shp, "float32") ELSE bufs[k]]
         IN AllocOctaves(new, o + 1, nOct, Halved(shp), p)

\* The sigma passed to _init_gaussian / gaussian_convolution, as an index:
\* 0 is the pre-blur sqrt(InitSigma^2 - curSigma^2), i + 1 the i-th increment
\* prevSigma * sqrt(sigmaRatio^2 - 1).  Both methods compute them alike.
SigmaPre == 0
SigmaInc(i) == i + 1

\* _init_gaussian for the sigmas of _allocate_buffers (tap length not tracked).
AllocGaussians(bufs, p) ==
    LET keys == (IF p.InitBlur THEN {Key("gaussian", SigmaPre, 0)} ELSE {})
                \cup {Key("gaussian", SigmaInc(i), 0) : i \in 0 .. p.Scales + 1}
    IN [k \in DOMAIN bufs \cup keys |->
           IF k \in keys THEN Array(<<>>, "float32") ELSE bufs[k]]

\* _allocate_buffers
allocate_buffers(shp, dt, nOct, p) ==
    LET raw == IF dt # "float32" THEN {Key("raw", 0, 0)} ELSE {}
        base == [k \in raw \cup {Key("input", 0, 0)} |->
                    IF k = Key("input", 0, 0) THEN Array(shp, "float32")
                    ELSE Array(shp, dt)]
    IN AllocGaussians(AllocOctaves(base, 0, nOct, shp, p), p)

\* The shape test of __init__: "3d" and "2d" are accepted, the rest raises.
ShapeKind(shp) ==
    IF Len(shp) = 3 THEN "3d" ELSE IF Len(shp) = 2 THEN "2d" ELSE "error"

\* SiftPlan.__init__
Construct ==
    /\ pc = "new"
    /\ LET kind == ShapeKind(argShape)
           shp == IF kind = "3d" THEN SubSeq(argShape, 1, 2) ELSE argShape
       IN  /\ dtype' = argDtype
           /\ shape' = shp
           /\ IF kind = "error"
              THEN /\ pc' = "failed"
                   /\ UNCHANGED <<RGB, scales, procsize, wgsize, buffers>>
              ELSE LET sc == calc_scales(shp, par)
                       wp == calc_workgroups(shp, par)
                   IN /\ pc' = "ready"
                      /\ RGB' = (kind = "3d")
                      /\ scales' = sc
                      /\ wgsize' = wp[1]
                      /\ procsize' = wp[2]
                      /\ buffers' = allocate_buffers(shp, argDtype, Len(sc), par)
    /\ UNCHANGED <<par, argShape, argDtype, call, teardown, detectVars>>

\* --------------------------------------------------------------- keypoints
\* The state of one keypoints() call while it runs: the operations enqueued
\* so far, in queue order, the exception raised ("ok" while none) and
\* self.buffers as the call sees it.
Started == [ops |-> <<>>, err |-> "ok", bufs |-> buffers]

Raise(st, e) == IF st.err = "ok" THEN [st EXCEPT !.err = e] ELSE st

Op(name, o, rd, wr) == [name |-> name, octave |-> o, reads |-> rd, writes |-> wr]

\* An operation that needs no work size: pyopencl.enqueue_copy or a
\* pyopencl.array reduction.  Looking up a missing buffer raises KeyError.
Enqueue(st, name, rd, wr) ==
    IF st.err # "ok" THEN st
    ELSE IF ~((rd \cup wr) \subseteq DOMAIN st.bufs) THEN Raise(st, "KeyError")
    ELSE [st EXCEPT !.ops = Append(@, Op(name, 0, rd, wr))]

\* A kernel launch of octave o: self.procsize[o], self.wgsize[o] and
\* self.scales[o] are indexed (IndexError), the buffers looked up (KeyError).
Launch(st, name, o, rd, wr) ==
    IF st.err # "ok" THEN st
    ELSE IF o >= Len(procsize) \/ o >= Len(wgsize) \/ o >= Len(scales)
         THEN Raise(st, "IndexError")
    ELSE IF ~((rd \cup wr) \subseteq DOMAIN st.bufs) THEN Raise(st, "KeyError")
    ELSE [st EXCEPT !.ops = Append(@, Op(name, o, rd, wr))]

Input == Key("input", 0, 0)
Raw == Key("raw", 0, 0)

\* The name of the conversion kernel keypoints() launches for a stored dtype.
KernelOf(dt, rgb) ==
    CASE dt = "uint8" -> IF rgb THEN "rgb_to_float" ELSE "u8_to_float"
      [] dt = "uint16" -> "u16_to_float"
      [] dt = "int32" -> "s32_to_float"
      [] dt = "int64" -> "s64_to_float"
      [] OTHER -> "none"

\* A variant of accepts that forgets the dtype assertion.
accepts_shape_only(img, imgDt) == img = shape

\* assert image.shape == self.shape; assert image.dtype == self.dtype
accepts(img, imgDt) == img = shape /\ imgDt = dtype

\* The if/elif chain on self.dtype: upload, then the conversion kernel.
convert(st) ==
    IF dtype = "float32" THEN Enqueue(st, "enqueue_copy", {}, {Input})
    ELSE IF dtype \in {"uint8", "uint16", "int32", "int64"}
         THEN Launch(Enqueue(st, "enqueue_copy", {}, {Raw}),
                     KernelOf(dtype, RGB), 0, {Raw}, {Input})
    ELSE Raise(st, "RuntimeError")

\* min and max of the input (read back), then the normalizes kernel.
normalize(st) ==
    Launch(Enqueue(Enqueue(st, "min", {Input}, {}), "max", {Input}, {}),
           "normalizes", 0, {Input}, {Input})

\* A variant of gaussian_convolution that drops its scratch buffer from the
\* registry once the vertical pass is enqueued.
gaussian_convolution_releasing(st, in, out, sigma, o) ==
    LET tmp == Key("tmp", o, 0)
        taps == Key("gaussian", sigma, 0)
        done == Launch(Launch(st, "horizontal_convolution", o, {in, taps}, {tmp}),
                       "vertical_convolution", o, {tmp, taps}, {out})
    IN IF done.err = "ok"
       THEN [done EXCEPT !.bufs = [k \in DOMAIN done.bufs \ {tmp} |-> done.bufs[k]]]
       ELSE done

\* gaussian_convolution: horizontal pass into the octave's scratch buffer,
\* vertical pass into the output; the registry is only read.
gaussian_convolution(st, in, out, sigma, o) ==
    LET tmp == Key("tmp", o, 0)
        taps == Key("gaussian", sigma, 0)
    IN Launch(Launch(st, "horizontal_convolution", o, {in, taps}, {tmp}),
              "vertical_convolution", o, {tmp, taps}, {out})

\* G[0,0]: the pre-blur when InitSigma > curSigma, a device copy otherwise.
base(st) ==
    IF par.InitBlur
    THEN gaussian_convolution(st, Input, Key("G", 0, 0), SigmaPre, 0)
    ELSE Enqueue(st, "enqueue_copy", {Input}, {Key("G", 0, 0)})

\* for i in range(par.Scales + 2): blur G[o,i] into G[o,i+1], then combine.
RECURSIVE LevelLoop(_, _, _)
LevelLoop(st, o, i) ==
    IF i >= par.Scales + 2 THEN st
    ELSE LevelLoop(
            Launch(gaussian_convolution(st, Key("G", o, i), Key("G", o, i + 1),
                                        SigmaInc(i), o),
                   "combine", o, {Key("G", o, i + 1), Key("G", o, i)},
                   {Key("DoG", o, i)}),
            o, i + 1)

\* The value the loop variable i keeps after "for i in range(par.Scales + 2)".
LastLevel == par.Scales + 1

\* "if i < par.Scales + 1:" after the level loop, and the shrink it guards.
shrink(st, o) ==
    IF LastLevel < par.Scales + 1
    THEN Launch(st, "shrink", o + 1, {Key("G", o, 0)}, {Key("G", o + 1, 0)})
    ELSE st

\* for octave in range(len(self.scales))
RECURSIVE OctaveLoop(_, _)
OctaveLoop(st, o) ==
    IF o >= Len(scales) \/ st.err # "ok" THEN st
    ELSE OctaveLoop(shrink(LevelLoop(st, o, 0), o), o + 1)

\* SiftPlan.keypoints(image); the method has no return statement.
keypoints(img, imgDt) ==
    IF ~accepts(img, imgDt) THEN Raise(Started, "AssertionError")
    ELSE OctaveLoop(base(normalize(convert(Started))), 0)

\* Images handed to keypoints(): the constructor's shape, the stored shape,
\* another shape; the stored dtype or another one.
OtherDtype(dt) == IF dt = "float32" THEN "uint8" ELSE "float32"

Keypoints ==
    /\ pc = "ready"
    /\ \E img \in {argShape, shape, <<shape[1] + 1, shape[2]>>},
          imgDt \in {dtype, OtherDtype(dtype)} :
          LET st == keypoints(img, imgDt)
          IN /\ call' = [image |-> img, imgDtype |-> imgDt, ops |-> st.ops,
                         err |-> st.err,
                         result |-> IF st.err = "ok" THEN "None" ELSE "raised"]
             /\ buffers' = st.bufs
    /\ UNCHANGED <<par, argShape, argDtype, pc, shape, dtype, RGB, scales,
                   procsize, wgsize, teardown, detectVars>>

\* ---------------------------------------------------------------- teardown
NoTeardown == [visits |-> EmptyMap, failing |-> {}, logged |-> {}, err |-> "none"]

NoneVal == [val |-> "None", shape |-> <<>>, dtype |-> ""]

MinIn(S) == CHOOSE n \in S : \A m \in S : n <= m

RECURSIVE SetToSeq(_)
SetToSeq(S) ==
    IF S = {} THEN <<>>
    ELSE LET x == CHOOSE y \in S : TRUE IN <<x>> \o SetToSeq(S \ {x})

\* A Python 2 dict as its hash table: the slots in table order, each holding
\* a key that is live or a dummy left by a deletion, and the values of the
\* live keys.
DictOf(f) ==
    LET seq == SetToSeq(DOMAIN f)
    IN [slots |-> [n \in 1 .. Len(seq) |-> [key |-> seq[n], live |-> TRUE]],
        vals |-> f]

DictLen(d) == Cardinality(DOMAIN d.vals)

\* del d[k]: the slot becomes a dummy and keeps its place in the table.
DictDel(d, k) ==
    [slots |-> [n \in DOMAIN d.slots |->
                   IF d.slots[n].key = k /\ d.slots[n].live
                   THEN [key |-> k, live |-> FALSE] ELSE d.slots[n]],
     vals |-> [x \in DOMAIN d.vals \ {k} |-> d.vals[x]]]

\* d[k] = v: an existing key keeps its slot; a new key takes the first dummy
\* slot met (the one its own deletion left, when that is the only dummy), a
\* fresh slot otherwise.
DictSet(d, k, v) ==
    LET newVals == [x \in DOMAIN d.vals \cup {k} |-> IF x = k THEN v ELSE d.vals[x]]
        dummies == {n \in DOMAIN d.slots : ~d.slots[n].live}
    IN IF k \in DOMAIN d.vals THEN [d EXCEPT !.vals = newVals]
       ELSE IF dummies # {}
            THEN [slots |-> [d.slots EXCEPT ![MinIn(dummies)] = [key |-> k, live |-> TRUE]],
                  vals |-> newVals]
       ELSE [slots |-> Append(d.slots, [key |-> k, live |-> TRUE]), vals |-> newVals]

\* A variant of release without the except clause: the failure propagates.
release_uncaught(st, k) ==
    IF k \in st.failing THEN [st EXCEPT !.err = "LogicError"]
    ELSE [st EXCEPT !.dict = DictSet(DictDel(@, k), k, NoneVal)]

\* try: del self.buffers[name]; self.buffers[name] = None
\* except pyopencl.LogicError: logger.error(...)
release(st, k) ==
    IF k \in st.failing THEN [st EXCEPT !.logged = @ \cup {k}]
    ELSE [st EXCEPT !.dict = DictSet(DictDel(@, k), k, NoneVal)]

\* for buffer_name in self.buffers: the iterator walks the table from slot
\* pos; every next() first checks that the dict still has `used` entries
\* ("dictionary changed size during iteration" otherwise).
RECURSIVE FreeLoop(_, _, _)
FreeLoop(st, pos, used) ==
    IF DictLen(st.dict) # used THEN [st EXCEPT !.err = "RuntimeError"]
    ELSE LET live == {n \in pos .. Len(st.dict.slots) : st.dict.slots[n].live}
         IN IF live = {} THEN st
            ELSE LET n == MinIn(live)
                     k == st.dict.slots[n].key
                     seen == [st EXCEPT !.visits[k] = @ + 1]
                     after == IF seen.dict.vals[k] # NoneVal
                              THEN release(seen, k) ELSE seen
                 IN IF after.err # "ok" THEN after
                    ELSE FreeLoop(after, n + 1, used)

\* _free_buffers, with `failing` the entries whose release raises LogicError.
free_buffers(bufs, failing) ==
    FreeLoop([dict |-> DictOf(bufs), visits |-> [k \in DOMAIN bufs |-> 0],
              failing |-> failing, logged |-> {}, err |-> "ok"],
             1, Cardinality(DOMAIN bufs))

\* The subsets of S with at most n elements.
RECURSIVE FailSets(_, _)
FailSets(S, n) ==
    IF n = 0 THEN {{}}
    ELSE LET smaller == FailSets(S, n - 1)
         IN smaller \cup {f \cup {k} : f \in smaller, k \in S}

\* SiftPlan.__del__: _free_kernels, _free_buffers, then queue and ctx dropped.
Del ==
    /\ pc = "ready"
    /\ \E failing \in FailSets(DOMAIN buffers, MaxFail) :
          LET st == free_buffers(buffers, failing)
          IN /\ buffers' = st.dict.vals
             /\ teardown' = [visits |-> st.visits, failing |-> failing,
                             logged |-> st.logged, err |-> st.err]
             /\ pc' = IF st.err = "ok" THEN "freed" ELSE "del_raised"
    /\ UNCHANGED <<par, argShape, argDtype, shape, dtype, RGB, scales,
                   procsize, wgsize, call, detectVars>>

\* ------------------------------------------------------ extremum detector
\* The arguments test_local_maxmin passes (thresholds in hundredths).
border_dist == 5
peakthresh_pct == 1
EdgeThresh_pct == 6
EdgeThresh0_pct == 8
octsize == 4
s_index == 1

nb_keypoints == MaxKeypoints
width == ScanSide + 2 * border_dist
height == ScanSide + 2 * border_dist

\* The pixels (i, j) = (row, column) both scans visit.
ScanPixels ==
    {<<i, j>> : i \in border_dist .. height - border_dist - 1,
                j \in border_dist .. width - border_dist - 1}

Sentinel == <<-1, -1, -1, -1>>

Abs(x) == IF x < 0 THEN -x ELSE x

\* dog_prev[i,j], dog[i,j], dog_next[i,j]
DogPrev(i, j) == dog.prev
Dog(i, j) == IF <<i, j>> \in dog.peaks THEN dog.val ELSE 0
DogNext(i, j) == dog.next

\* is_maxmin: 1 for a maximum, -1 for a minimum, 0 otherwise or when the
\* edge test rejects.  H01 is kept times 4 and det times 16 (exact).
is_maxmin(val, i0, j0, octsz, thr0, thr1) ==
    LET around == {<<i, j>> : i \in i0 - 1 .. i0 + 1, j \in j0 - 1 .. j0 + 1}
        ismax == val > 0
                 /\ \A q \in around : ~(DogPrev(q[1], q[2]) > val
                                        \/ Dog(q[1], q[2]) > val
                                        \/ DogNext(q[1], q[2]) > val)
        ismin == ~(val > 0)
                 /\ \A q \in around : ~(DogPrev(q[1], q[2]) < val
                                        \/ Dog(q[1], q[2]) < val
                                        \/ DogNext(q[1], q[2]) < val)
        res == IF ismin THEN -1 ELSE IF ismax THEN 1 ELSE 0
        H00 == Dog(i0 - 1, j0) - 2 * Dog(i0, j0) + Dog(i0 + 1, j0)
        H11 == Dog(i0, j0 - 1) - 2 * Dog(i0, j0) + Dog(i0, j0 + 1)
        H01x4 == (Dog(i0 + 1, j0 + 1) - Dog(i0 + 1, j0 - 1))
                 - (Dog(i0 - 1, j0 + 1) - Dog(i0 - 1, j0 - 1))
        det16 == 16 * H00 * H11 - H01x4 * H01x4
        trace == H00 + H11
        thr == IF octsz <= 1 THEN thr0 ELSE thr1
    IN IF 100 * det16 < thr * 16 * trace * trace THEN 0 ELSE res

\* numpy.abs(val) > 0.8 * thresh
contrast(val, thresh_pct) == 1000 * Abs(val) > 8 * thresh_pct

\* The n-th pixel of "for j in range(border_dist, width - border_dist):
\* for i in range(border_dist, height - border_dist)", n from 0.
RefPixel(n) ==
    LET rows == height - 2 * border_dist
    IN <<border_dist + (n % rows), border_dist + (n \div rows)>>

\* A variant of ref_store that forgets "counter += 1".
ref_store_no_increment(st, rec) ==
    IF st.counter >= nb_keypoints THEN [st EXCEPT !.err = "IndexError"]
    ELSE [st EXCEPT !.out[st.counter] = rec]

\* output[counter, 0..3] = val, i, j, s; counter += 1.  An index past the
\* array raises IndexError.
ref_store(st, rec) ==
    IF st.counter >= nb_keypoints THEN [st EXCEPT !.err = "IndexError"]
    ELSE [st EXCEPT !.out[st.counter] = rec, !.counter = @ + 1]

\* The loop body of my_local_maxmin from the n-th pixel on.
RECURSIVE RefLoop(_, _)
RefLoop(st, n) ==
    IF n >= Cardinality(ScanPixels) \/ st.err # "ok" THEN st
    ELSE LET i == RefPixel(n)[1]
             j == RefPixel(n)[2]
             val == Dog(i, j)
             hit == contrast(val, peakthresh_pct)
                    /\ is_maxmin(val, i, j, octsize, EdgeThresh0_pct, EdgeThresh_pct) # 0
         IN RefLoop(IF hit THEN ref_store(st, <<val, i, j, s_index>>) ELSE st, n + 1)

\* my_local_maxmin on the current DoG levels.
my_local_maxmin ==
    RefLoop([out |-> [n \in 0 .. nb_keypoints - 1 |-> Sentinel],
             counter |-> 0, err |-> "ok"], 0)

Records(out) == {out[n] : n \in DOMAIN out} \ {Sentinel}

\* The test a work-item of the local_maxmin kernel applies to its pixel
\* (test_local_maxmin holds the kernel to the reference's test).
KernelSurvives(p) ==
    /\ p \in ScanPixels
    /\ contrast(Dog(p[1], p[2]), peakthresh_pct)
    /\ is_maxmin(Dog(p[1], p[2]), p[1], p[2], octsize, EdgeThresh0_pct, EdgeThresh_pct) # 0

\* A surviving work-item claims a slot: atomic post-increment of the counter.
Claim(p) ==
    /\ pc = "detector"
    /\ wi[p].at = "idle"
    /\ KernelSurvives(p)
    /\ wi' = [wi EXCEPT ![p] = [at |-> "claimed", slot |-> counter]]
    /\ counter' = counter + 1
    /\ UNCHANGED <<dog, output, ref, planVars>>

\* The work-item writes its record if its slot is inside the array.
Write(p) ==
    /\ pc = "detector"
    /\ wi[p].at = "claimed"
    /\ wi' = [wi EXCEPT ![p].at = "done"]
    /\ output' = IF wi[p].slot < nb_keypoints
                 THEN [output EXCEPT ![wi[p].slot] = <<Dog(p[1], p[2]), p[1], p[2], s_index>>]
                 ELSE output
    /\ UNCHANGED <<dog, counter, ref, planVars>>

\* ---------------------------------------------------- sub-pixel refinement
\* The arguments test_interpolation passes: the move budget and the peak
\* threshold (in hundredths).
movesRemain == 5
peakthresh_interp_pct == 21

NoRefinement == [i |-> 0, rows |-> <<>>, fits |-> <<>>, err |-> "none"]

\* The rows of the refined array: a candidate not refined yet, a refined
\* keypoint (its offsets are those of the fit at (r, c)), the invalid
\* (-1,-1,-1,-1), and the row of nan that storing None leaves.
Candidate(r, c) == [kind |-> "candidate", r |-> r, c |-> c]
Refined(r, c) == [kind |-> "keypoint", r |-> r, c |-> c]
Invalid == [kind |-> "invalid", r |-> -1, c |-> -1]
NoneRow == [kind |-> "nan", r |-> -1, c |-> -1]

\* fit_quadratic at (r, c), in exact arithmetic.  With g2 = 2*g and H4 = 4*H
\* (entries a b cc / b d e / cc e f), x = -inv(H).g is x_k = n_k / den with
\* den = det(H4) and n = -2 * adj(H4).g2, and peakval = peak / (4 * den).
\* numpy.linalg.inv raises LinAlgError when H is singular.
fit_quadratic(r, c) ==
    LET g0 == DogNext(r, c) - DogPrev(r, c)
        g1 == Dog(r + 1, c) - Dog(r - 1, c)
        g2 == Dog(r, c + 1) - Dog(r, c - 1)
        a == 4 * (DogPrev(r, c) - 2 * Dog(r, c) + DogNext(r, c))
        d == 4 * (Dog(r - 1, c) - 2 * Dog(r, c) + Dog(r + 1, c))
        f == 4 * (Dog(r, c - 1) - 2 * Dog(r, c) + Dog(r, c + 1))
        b == (DogNext(r + 1, c) - DogNext(r - 1, c))
             - (DogPrev(r + 1, c) - DogPrev(r - 1, c))
        cc == (DogNext(r, c + 1) - DogNext(r, c - 1))
              - (DogPrev(r, c + 1) - DogPrev(r, c - 1))
        e == (Dog(r + 1, c + 1) - Dog(r + 1, c - 1))
             - (Dog(r - 1, c + 1) - Dog(r - 1, c - 1))
        den == a * (d * f - e * e) - b * (b * f - cc * e) + cc * (b * e - cc * d)
        n0 == -2 * ((d * f - e * e) * g0 + (cc * e - b * f) * g1 + (b * e - cc * d) * g2)
        n1 == -2 * ((cc * e - b * f) * g0 + (a * f - cc * cc) * g1 + (b * cc - a * e) * g2)
        n2 == -2 * ((b * e - cc * d) * g0 + (b * cc - a * e) * g1 + (a * d - b * b) * g2)
    IN [singular |-> den = 0, den |-> den, x0 |-> n0, x1 |-> n1, x2 |-> n2,
        peak |-> 4 * den * Dog(r, c) + n0 * g0 + n1 * g1 + n2 * g2]

\* n / den > 0.6, n / den < -0.6 and |n / den| < 1.5 (den # 0)
Above(n, den) == 5 * n * den > 3 * den * den
Below(n, den) == 5 * n * den < -3 * den * den
Small(n, den) == 2 * Abs(n) < 3 * Abs(den)

\* newr, newc: one step along each axis whose offset exceeds 0.6, while the
\* position is more than 3 pixels from the matching border.
recenter(fit, r, c) ==
    <<IF Above(fit.x1, fit.den) /\ r < height - 3 THEN r + 1
      ELSE IF Below(fit.x1, fit.den) /\ r > 3 THEN r - 1 ELSE r,
      IF Above(fit.x2, fit.den) /\ c < width - 3 THEN c + 1
      ELSE IF Below(fit.x2, fit.den) /\ c > 3 THEN c - 1 ELSE c>>

\* abs(x[0]) < 1.5 and abs(x[1]) < 1.5 and abs(x[2]) < 1.5
\* and abs(peakval) > peakthresh
acceptable(fit) ==
    /\ Small(fit.x0, fit.den) /\ Small(fit.x1, fit.den) /\ Small(fit.x2, fit.den)
    /\ 100 * Abs(fit.peak) > peakthresh_interp_pct * 4 * Abs(fit.den)

\* my_interp_keypoint(r, c, moves): what the call returns (ret) or raises
\* (err), with the position of the last fit made, whether that fit passed
\* the acceptance test, and the number of moves.  The call that recurses
\* has no return statement of its own: it returns None.
RECURSIVE my_interp_keypoint(_, _, _)
my_interp_keypoint(r, c, moves) ==
    LET fit == fit_quadratic(r, c)
    IN IF fit.singular
       THEN [err |-> "LinAlgError", ret |-> NoneRow, at |-> <<r, c>>,
             accepted |-> FALSE, moved |-> 0]
       ELSE LET new == recenter(fit, r, c)
            IN IF moves > 0 /\ (new[1] # r \/ new[2] # c)
               THEN LET inner == my_interp_keypoint(new[1], new[2], moves - 1)
                    IN [inner EXCEPT !.ret = NoneRow, !.moved = @ + 1]
               ELSE [err |-> "ok",
                     ret |-> IF acceptable(fit) THEN Refined(r, c) ELSE Invalid,
                     at |-> <<r, c>>, accepted |-> acceptable(fit), moved |-> 0]

\* One turn of "for i, k in enumerate(ref): ref[i] = my_interp_keypoint(...,
\* k[1], k[2], 5, ...)" on a row that holds a candidate.  An exception ends
\* the loop.
Interp ==
    /\ pc = "refiner"
    /\ ref.i < counter
    /\ LET k == output[ref.i]
           res == my_interp_keypoint(k[2], k[3], movesRemain)
           fit == [done |-> TRUE, at |-> res.at, accepted |-> res.accepted,
                   moved |-> res.moved]
       IN IF res.err = "ok"
          THEN /\ ref' = [ref EXCEPT !.i = @ + 1, !.rows[ref.i] = res.ret,
                                     !.fits[ref.i] = fit]
               /\ pc' = pc
          ELSE /\ ref' = [ref EXCEPT !.err = res.err, !.fits[ref.i] = fit]
               /\ pc' = "refine_raised"
    /\ UNCHANGED <<par, argShape, argDtype, shape, dtype, RGB, scales, procsize,
                   wgsize, buffers, call, teardown, dog, counter, output, wi>>

DetectorUnused ==
    /\ dog = [peaks |-> {}, val |-> 0, prev |-> 0, next |-> 0]
    /\ counter = 0
    /\ output = <<>>
    /\ wi = <<>>
    /\ ref = NoRefinement

PlanInit ==
    /\ par \in [Scales : 1 .. MaxScales, BorderDist : 0 .. MaxBorder, InitBlur : BOOLEAN]
    /\ argShape \in Shapes
    /\ argDtype \in Dtypes
    /\ pc = "new"
    /\ shape = <<>>
    /\ dtype = ""
    /\ RGB = FALSE
    /\ scales = <<>>
    /\ procsize = <<>>
    /\ wgsize = <<>>
    /\ buffers = EmptyMap
    /\ call = NoCall
    /\ teardown = NoTeardown
    /\ DetectorUnused

PlanNext == Construct \/ Keypoints

Spec == PlanInit /\ [][PlanNext]_vars

\* Teardown is explored on square grey-level plans: the registry it walks
\* depends on the number of octaves, on par.Scales, on the pre-blur and on
\* whether a raw buffer exists.
TeardownInit ==
    /\ PlanInit
    /\ argShape \in {<<h, h>> : h \in Dims}
    /\ argDtype \in {"float32", "uint8"}
    /\ par.BorderDist = 0
    /\ par.Scales = 1

TeardownNext == Construct \/ Del

SpecTeardown == TeardownInit /\ [][TeardownNext]_vars

\* The detector runs on DoG stacks that are zero but for a few peaks of one
\* sign in the scanned region, between constant previous and next levels.
DetectInit ==
    /\ dog \in [peaks : {P \in SUBSET ScanPixels : Cardinality(P) <= MaxKeypoints + 1},
                 val : {-PeakVal, PeakVal},
                 prev : {-(PeakVal + 1), 0},
                 next : {0, PeakVal + 1}]
    /\ counter = 0
    /\ output = [n \in 0 .. nb_keypoints - 1 |-> Sentinel]
    /\ wi = [p \in ScanPixels |-> [at |-> "idle", slot |-> -1]]
    /\ ref = NoRefinement
    /\ par = [Scales |-> 1, BorderDist |-> 0, InitBlur |-> FALSE]
    /\ argShape = <<>>
    /\ argDtype = ""
    /\ pc = "detector"
    /\ shape = <<>>
    /\ dtype = ""
    /\ RGB = FALSE
    /\ scales = <<>>
    /\ procsize = <<>>
    /\ wgsize = <<>>
    /\ buffers = EmptyMap
    /\ call = NoCall
    /\ teardown = NoTeardown

DetectNext == \E p \in ScanPixels : Claim(p) \/ Write(p)

SpecDetect == DetectInit /\ [][DetectNext]_vars

\* The pixels that may hold a peak when the refiner runs: the scanned square
\* and the row and column next to it.
RefineRegion ==
    {<<i, j>> : i \in border_dist .. height - border_dist,
                j \in border_dist .. width - border_dist}

\* Refinement starts from the array my_local_maxmin returned (the detection
\* did not overflow) and walks its candidate rows; both tests' contrast
\* thresholds select the same pixels on these levels.
RefineInit ==
    /\ dog \in [peaks : SUBSET RefineRegion,
                 val : {-PeakVal, PeakVal},
                 prev : {0, PeakVal},
                 next : {0, PeakVal}]
    /\ my_local_maxmin.err = "ok"
    /\ \A p \in ScanPixels :
          contrast(Dog(p[1], p[2]), peakthresh_pct)
              <=> contrast(Dog(p[1], p[2]), peakthresh_interp_pct)
    /\ counter = my_local_maxmin.counter
    /\ output = my_local_maxmin.out
    /\ wi = <<>>
    /\ ref = [i |-> 0,
              rows |-> [n \in 0 .. counter - 1 |-> Candidate(output[n][2], output[n][3])],
              fits |-> [n \in 0 .. counter - 1 |->
                           [done |-> FALSE, at |-> <<-1, -1>>, accepted |-> FALSE,
                            moved |-> 0]],
              err |-> "ok"]
    /\ par = [Scales |-> 1, BorderDist |-> 0, InitBlur |-> FALSE]
    /\ argShape = <<>>
    /\ argDtype = ""
    /\ pc = "refiner"
    /\ shape = <<>>
    /\ dtype = ""
    /\ RGB = FALSE
    /\ scales = <<>>
    /\ procsize = <<>>
    /\ wgsize = <<>>
    /\ buffers = EmptyMap
    /\ call = NoCall
    /\ teardown = NoTeardown

RefineNext == Interp

SpecRefine == RefineInit /\ [][RefineNext]_vars

\* ------------------------------------------------------- claims on the plan
Called == pc = "ready" /\ call.err # "none"

Returned == pc = "ready" /\ call.err = "ok"

OpsAt(name) == {q \in 1 .. Len(call.ops) : call.ops[q].name = name}

\* C1: every keypoints() call that accepts its image returns an array of
\* N x 132 keypoint rows; it never returns without a result.
C1_ReturnsArray == Returned => call.result = "array"

\* The shrinks enqueued for the transition from octave o to octave o + 1.
ShrinksInto(o) ==
    {q \in OpsAt("shrink") : Key("G", o + 1, 0) \in call.ops[q].writes}

\* The operations of octave o that write one of its Gaussian levels.
LevelWrites(o) ==
    {q \in 1 .. Len(call.ops) :
        \E i \in 1 .. par.Scales + 2 : Key("G", o, i) \in call.ops[q].writes}

\* C2: for every octave o with o + 1 < O a completed keypoints() call has
\* enqueued, after the levels of octave o, exactly one shrink that reads
\* G[o,S] and writes G[o+1,0]; there is no shrink for the last octave.
C2_OneShrinkPerTransition ==
    Returned =>
        \A o \in 0 .. Len(scales) - 1 :
            IF o + 1 < Len(scales)
            THEN /\ Cardinality(ShrinksInto(o)) = 1
                 /\ \A q \in ShrinksInto(o) :
                       /\ call.ops[q].reads = {Key("G", o, par.Scales)}
                       /\ \A w \in LevelWrites(o) : w < q
            ELSE ShrinksInto(o) = {}

\* Buffer k has been written by an operation enqueued before position q.
WrittenBefore(k, q) == \E w \in 1 .. q - 1 : k \in call.ops[w].writes

\* C3: in the operations enqueued by one keypoints() call no Gaussian level
\* is read (by a convolution or by a combine) before it has been written in
\* that same call.
C3_NoReadBeforeWrite ==
    Called =>
        \A q \in 1 .. Len(call.ops) :
            \A k \in call.ops[q].reads : k[1] = "G" => WrittenBefore(k, q)

\* The shapes and dtypes the pipeline supports: 2-D, or 3-channel uint8 RGB.
SupportedImage(shp, dt) ==
    /\ dt \in SupportedDtypes
    /\ \/ Len(shp) = 2
       \/ Len(shp) = 3 /\ shp[3] = 3 /\ dt = "uint8"

\* The conversion of the stored pixel type is among the enqueued operations.
ConversionDispatched ==
    IF dtype = "float32"
    THEN \E q \in OpsAt("enqueue_copy") : call.ops[q].writes = {Input}
    ELSE OpsAt(KernelOf(dtype, RGB)) # {}

\* C4: a plan built from a supported template image accepts that same image:
\* the shape/dtype check passes and the matching conversion is dispatched
\* (stated for plans with at least one octave).
C4_TemplateAccepted ==
    (Called /\ call.image = argShape /\ call.imgDtype = argDtype
        /\ SupportedImage(argShape, argDtype) /\ Len(scales) >= 1)
    => (call.err # "AssertionError" /\ ConversionDispatched)

\* The image of the last call cannot be processed by this plan.
Unprocessable ==
    call.image # shape \/ call.imgDtype # dtype \/ dtype \notin SupportedDtypes

\* C5: a keypoints() call with an image it cannot process fails before any
\* transfer or kernel launch: nothing has been enqueued by the failed call.
C5_FailsBeforeAnyWrite ==
    (Called /\ Unprocessable)
    => (call.err \in {"AssertionError", "RuntimeError"} /\ call.ops = <<>>)

\* A call that passed both assertions and hit the unsupported-dtype branch.
C5_Witness ==
    Called /\ Unprocessable /\ call.err = "RuntimeError" /\ call.image = shape

\* C6: a shape that is neither 2-D nor 3-D with exactly 3 channels makes the
\* constructor fail, and no device buffer is allocated.
C6_BadShapeRejected ==
    (pc # "new" /\ ~(Len(argShape) = 2 \/ (Len(argShape) = 3 /\ argShape[3] = 3)))
    => (pc = "failed" /\ DOMAIN buffers = {})

\* The octaves o >= 0 whose size min(floor(H/2^o), floor(W/2^o)) exceeds
\* 2*B + 2, counted directly.
ValidOctaves(shp, p) ==
    {o \in 0 .. FloorLog2(MaxDim) + 1 :
        Min2(shp[1] \div Pow2(o), shp[2] \div Pow2(o)) > 2 * p.BorderDist + 2}

\* C7 as stated: O is the number of octaves that satisfy the size condition,
\* minus one (stated for images with at least one such octave).
C7_ValidMinusOne ==
    (pc = "ready" /\ ValidOctaves(shape, par) # {})
    => Len(scales) = Cardinality(ValidOctaves(shape, par)) - 1

\* C7 as amended: O is the number of octaves that satisfy the size condition;
\* the final pop removes the first shape that fails it.
C7_AllValidOctaves ==
    pc = "ready" => Len(scales) = Cardinality(ValidOctaves(shape, par))

\* A non-square plan with two octaves.
C7_Witness == pc = "ready" /\ Len(scales) = 2 /\ shape[1] # shape[2]

\* C8: for every octave the kernel dimensions scales[o] are (W_o, H_o), the
\* XY order of the shape (H_o, W_o) = (floor(H/2^o), floor(W/2^o)) of the
\* buffers allocated for that octave.
C8_ScalesMatchBuffers ==
    pc = "ready" =>
        \A o \in 0 .. Len(scales) - 1 :
            /\ buffers[Key("G", o, 0)].shape
                   = <<shape[1] \div Pow2(o), shape[2] \div Pow2(o)>>
            /\ scales[o + 1] = Reversed(buffers[Key("G", o, 0)].shape)

\* ---------------------------------------------------- claims on teardown
TornDown == pc \in {"freed", "del_raised"}

\* C9: teardown always completes: whichever entries fail to release, the
\* pass visits every registry entry exactly once, every entry whose release
\* did not fail ends up released, and no failure reaches the caller.
C9_TeardownCompletes ==
    TornDown =>
        /\ pc = "freed" /\ teardown.err = "ok"
        /\ DOMAIN buffers = DOMAIN teardown.visits
        /\ \A k \in DOMAIN teardown.visits : teardown.visits[k] = 1
        /\ \A k \in DOMAIN buffers \ teardown.failing : buffers[k] = NoneVal
        /\ teardown.logged = teardown.failing

\* A teardown in which two releases failed and the others went through.
C9_Witness ==
    /\ pc = "freed"
    /\ Cardinality(teardown.failing) = 2
    /\ \E k \in DOMAIN buffers : buffers[k] = NoneVal
    /\ \A k \in teardown.failing : buffers[k] # NoneVal

\* ---------------------------------------------------- claims on the detector
Survivors == {p \in ScanPixels : KernelSurvives(p)}

KernelDone == pc = "detector" /\ \A p \in Survivors : wi[p].at = "done"

DistinctSlots ==
    \A p, q \in ScanPixels :
        (wi[p].at # "idle" /\ wi[q].at # "idle" /\ p # q) => wi[p].slot # wi[q].slot

SameAsReference ==
    my_local_maxmin.err = "ok" /\ Records(output) = Records(my_local_maxmin.out)

C11_OverflowDropped ==
    (pc = "detector" /\ Cardinality(Survivors) > nb_keypoints) =>
        /\ my_local_maxmin.err = "ok"
        /\ my_local_maxmin.counter = nb_keypoints
        /\ Cardinality(Records(my_local_maxmin.out)) = nb_keypoints

\* ------------------------------------------------- claims on the registry
\* C12: keypoints() leaves the registry unchanged: after any number of calls
\* on a constructed plan, the keys of the registry and the buffer bound to
\* each key are those _allocate_buffers created.
C12_RegistryUnchanged ==
    pc = "ready" => buffers = allocate_buffers(shape, dtype, Len(scales), par)

\* A call that ran both octaves of a plan with a raw buffer and a pre-blur,
\* and returned.
C12_Witness ==
    /\ Returned
    /\ Len(scales) = 2
    /\ par.InitBlur
    /\ Raw \in DOMAIN buffers
    /\ OpsAt("vertical_convolution") # {}

\* ------------------------------------------------ claims on the extremum test
\* The values of the 26 neighbours of pixel p in the three levels.
NeighbourValues(p) ==
    LET around == {<<i, j>> : i \in p[1] - 1 .. p[1] + 1, j \in p[2] - 1 .. p[2] + 1}
    IN {DogPrev(q[1], q[2]) : q \in around}
       \cup {DogNext(q[1], q[2]) : q \in around}
       \cup {Dog(q[1], q[2]) : q \in around \ {p}}

StrictMax(p) == \A x \in NeighbourValues(p) : x < Dog(p[1], p[2])

StrictMin(p) == \A x \in NeighbourValues(p) : x > Dog(p[1], p[2])

\* C13: is_maxmin reports a pixel only if every one of its 26 neighbours is
\* strictly less than its value or every one is strictly greater; a pixel
\* with a neighbour equal to its value is never reported.
C13_StrictExtremaOnly ==
    pc = "detector" =>
        \A p \in ScanPixels :
            is_maxmin(Dog(p[1], p[2]), p[1], p[2], octsize, EdgeThresh0_pct,
                      EdgeThresh_pct) # 0
            => (StrictMax(p) \/ StrictMin(p))

\* ------------------------------------------------ claims on the refinement
Refining == pc \in {"refiner", "refine_raised"}

\* The position reached from (r, c) by following the re-centering moves
\* while the budget lasts.
RECURSIVE FinalPosition(_, _, _)
FinalPosition(r, c, moves) ==
    LET new == recenter(fit_quadratic(r, c), r, c)
    IN IF moves > 0 /\ new # <<r, c>>
       THEN FinalPosition(new[1], new[2], moves - 1)
       ELSE <<r, c>>

\* The outcome of the acceptance test on the fit at position q.
OutcomeAt(q) ==
    IF acceptable(fit_quadratic(q[1], q[2])) THEN Refined(q[1], q[2]) ELSE Invalid

\* C14: the row my_interp_keypoint yields for a candidate is the outcome of
\* the acceptance test on the fit at the final re-centered position, for
\* every number of moves from 0 to the budget: a refined record or the
\* invalid (-1,-1,-1,-1).
C14_ResultOfFinalFit ==
    Refining =>
        \A n \in 0 .. ref.i - 1 :
            ref.rows[n] = OutcomeAt(FinalPosition(output[n][2], output[n][3],
                                                  movesRemain))

\* C15: the position at which an accepted fit is made lies in the scanned
\* region [B, H-B) x [B, W-B), whatever moves led to it.
C15_AcceptedFitInScanRegion ==
    Refining =>
        \A n \in DOMAIN ref.fits :
            (ref.fits[n].done /\ ref.fits[n].accepted) => ref.fits[n].at \in ScanPixels

\* C16: a candidate whose Hessian is singular is marked invalid; the
\* refinement raises nothing and goes on with the remaining candidates.
C16_SingularRejectedLocally ==
    Refining =>
        /\ pc = "refiner" /\ ref.err = "ok"
        /\ \A n \in 0 .. ref.i - 1 :
              fit_quadratic(ref.fits[n].at[1], ref.fits[n].at[2]).singular
              => ref.rows[n] = Invalid

\* ------------------------------------------------ claims on the plan's tables
\* The registry keys keypoints() looks up on a plan with the given tables.
KeysUsed ==
    {Input, Key("G", 0, 0)}
    \cup (IF dtype # "float32" THEN {Raw} ELSE {})
    \cup (IF par.InitBlur THEN {Key("gaussian", SigmaPre, 0)} ELSE {})
    \cup {Key("gaussian", SigmaInc(i), 0) : i \in 0 .. par.Scales + 1}
    \cup UNION {{Key("tmp", o, 0)}
                \cup {Key("G", o, i) : i \in 0 .. par.Scales + 2}
                \cup {Key("DoG", o, i) : i \in 0 .. par.Scales + 1}
                    : o \in 0 .. Len(scales) - 1}

\* C17: for every 2-D shape the constructor accepts, what keypoints()
\* dereferences exists: the three tables have one entry per octave and at
\* least one, every buffer looked up is in the registry, and no call fails
\* on a missing index or key.
C17_TablesCoverKeypoints ==
    (pc = "ready" /\ Len(argShape) = 2) =>
        /\ Len(scales) = Len(procsize)
        /\ Len(procsize) = Len(wgsize)
        /\ Len(scales) >= 1
        /\ KeysUsed \subseteq DOMAIN buffers
        /\ call.err \notin {"IndexError", "KeyError"}

====
